---- MODULE Spec2Model ----
(***************************************************************************)
(* Bybit level-1 order book: wire message -> routing key -> canonical      *)
(* MarketEvent<OrderBookL1>, as in barter-data/src/exchange/bybit/book/    *)
(* l1.rs.  Each message goes through deserialisation, id() and the From    *)
(* conversion; any number of messages may be in flight at once.            *)
(***************************************************************************)
EXTENDS Integers, Sequences, FiniteSets, TLC

VARIABLES
    payloads,   \* payloads[i]: the raw JSON payload of message i
    args,       \* args[i]: the caller-supplied (exchange_id, instrument)
    stage,      \* stage[i]: "raw", "decode_error", "decoded", "keyed", "mapped"
    book,       \* book[i]: Option<BybitOrderBookL1>, the decoded struct
    err,        \* err[i]: the field a failed decode names, "" when none
    key,        \* key[i]: Option<SubscriptionId> returned by id()
    iter,       \* iter[i]: the MarketIter the conversion returned
    now         \* the wall clock read by Utc::now(), in seconds

vars == <<payloads, args, stage, book, err, key, iter, now>>

\* ------------------------------------------------------------------ bounds

MaxLevels == 2      \* longest bid / ask level sequence of a payload
MaxCounter == 1     \* data.u and data.seq range over 0..MaxCounter
NumMessages == 2    \* messages in flight in the concurrent specification
MaxClock == 2       \* the wall clock runs over 0..MaxClock

\* ------------------------------------------------------------ Option/Result

None == [some |-> FALSE]
Some(x) == [some |-> TRUE, v |-> x]

Ok(x) == [ok |-> TRUE, v |-> x]
Err(f) == [ok |-> FALSE, field |-> f]

\* ---------------------------------------------------------------- f64 text
\* A price or amount text is a sequence of characters.  A parsed f64 is kept
\* as sign, decimal mantissa and decimal exponent with the mantissa's trailing
\* zeros removed, so that "2.50", "2.5" and "25e-1" denote the same value.
\* Texts of the model have fewer than 15 significant digits, for which two
\* decimals are the same f64 exactly when their normal forms are equal.

Digits == {"0", "1", "2", "3", "4", "5", "6", "7", "8", "9"}

DigitVal(c) ==
    CASE c = "0" -> 0 [] c = "1" -> 1 [] c = "2" -> 2 [] c = "3" -> 3
      [] c = "4" -> 4 [] c = "5" -> 5 [] c = "6" -> 6 [] c = "7" -> 7
      [] c = "8" -> 8 [] c = "9" -> 9

Lower(c) ==
    CASE c = "I" -> "i" [] c = "N" -> "n" [] c = "F" -> "f" [] c = "A" -> "a"
      [] c = "T" -> "t" [] c = "Y" -> "y" [] OTHER -> c

LowerText(s) == [k \in 1..Len(s) |-> Lower(s[k])]

F64(neg, mant, exp) == [cls |-> "finite", neg |-> neg, mant |-> mant, exp |-> exp]
F64Inf(neg) == [cls |-> "inf", neg |-> neg, mant |-> 0, exp |-> 0]
F64NaN == [cls |-> "nan", neg |-> FALSE, mant |-> 0, exp |-> 0]

\* The literal 0.0 of unwrap_or(0.0).
F64Zero == F64(FALSE, 0, 0)

RECURSIVE DigitRunEnd(_, _)
\* The first position at or after i of s that holds no digit.
DigitRunEnd(s, i) ==
    IF i <= Len(s) /\ s[i] \in Digits THEN DigitRunEnd(s, i + 1) ELSE i

RECURSIVE DigitsAcc(_, _, _, _)
\* acc extended by the decimal digits s[i..j-1].
DigitsAcc(s, i, j, acc) ==
    IF i >= j THEN acc ELSE DigitsAcc(s, i + 1, j, acc * 10 + DigitVal(s[i]))

RECURSIVE NumDigits(_)
NumDigits(m) == IF m < 10 THEN 1 ELSE 1 + NumDigits(m \div 10)

RECURSIVE Normalize(_, _, _)
\* The f64 of neg, mant * 10^exp: overflow gives infinity, underflow zero.
Normalize(neg, mant, exp) ==
    IF mant = 0 THEN F64(neg, 0, 0)
    ELSE IF mant % 10 = 0 THEN Normalize(neg, mant \div 10, exp + 1)
    ELSE IF NumDigits(mant) + exp - 1 > 308 THEN F64Inf(neg)
    ELSE IF NumDigits(mant) + exp - 1 < -324 THEN F64(neg, 0, 0)
    ELSE F64(neg, mant, exp)

\* Number ::= ( Digit+ | Digit+ '.' Digit* | Digit* '.' Digit+ ) Exp?
\* Exp    ::= 'e' Sign? Digit+
ParseNumber(s, start, neg) ==
    LET i1 == DigitRunEnd(s, start)
        hasDot == i1 <= Len(s) /\ s[i1] = "."
        f0 == IF hasDot THEN i1 + 1 ELSE i1
        f1 == IF hasDot THEN DigitRunEnd(s, f0) ELSE i1
        nInt == i1 - start
        nFrac == f1 - f0
        hasExp == f1 <= Len(s) /\ s[f1] \in {"e", "E"}
        e0 == f1 + 1
        hasESign == hasExp /\ e0 <= Len(s) /\ s[e0] \in {"+", "-"}
        eNeg == hasESign /\ s[e0] = "-"
        d0 == IF hasESign THEN e0 + 1 ELSE e0
        d1 == IF hasExp THEN DigitRunEnd(s, d0) ELSE f1
        eAbs == IF hasExp THEN DigitsAcc(s, d0, d1, 0) ELSE 0
        eVal == IF eNeg THEN 0 - eAbs ELSE eAbs
        mant == DigitsAcc(s, f0, f1, DigitsAcc(s, start, i1, 0))
    IN  IF nInt + nFrac = 0 THEN None
        ELSE IF hasExp /\ d1 = d0 THEN None
        ELSE IF d1 /= Len(s) + 1 THEN None
        ELSE Some(Normalize(neg, mant, eVal - nFrac))

\* <f64 as FromStr>::from_str(s).ok()
\* Float ::= Sign? ( 'inf' | 'infinity' | 'nan' | Number )
ParseF64(s) ==
    LET signed == Len(s) >= 1 /\ s[1] \in {"+", "-"}
        neg == signed /\ s[1] = "-"
        start == IF signed THEN 2 ELSE 1
        rest == LowerText(SubSeq(s, start, Len(s)))
    IN  IF Len(rest) = 0 THEN None
        ELSE IF rest = <<"i", "n", "f">> THEN Some(F64Inf(neg))
        ELSE IF rest = <<"i", "n", "f", "i", "n", "i", "t", "y">> THEN Some(F64Inf(neg))
        ELSE IF rest = <<"n", "a", "n">> THEN Some(F64NaN)
        ELSE ParseNumber(s, start, neg)

\* Option::unwrap_or
UnwrapOr(opt, default) == IF opt.some THEN opt.v ELSE default

\* <[T]>::get
Get(xs, index) == IF index + 1 <= Len(xs) THEN Some(xs[index + 1]) ELSE None

\* .get(0).and_then(|l| l[0].parse().ok()): the parsed price of the first level.
FirstPrice(levels) ==
    LET first == Get(levels, 0)
    IN  IF first.some THEN ParseF64(first.v[1]) ELSE None

\* .get(0).and_then(|l| l[1].parse().ok()): the parsed amount of the first level.
FirstAmount(levels) ==
    LET first == Get(levels, 0)
    IN  IF first.some THEN ParseF64(first.v[2]) ELSE None

\* ------------------------------------------------------------- wire payload
\* A JSON value carries its type in t.  A number carries its class: "int" (an
\* integer inside u64 or i64, its value in v), "float", or "big" (an integer
\* beyond u64::MAX).  A payload is the JSON object with the five top-level
\* keys; a key the document lacks holds Absent.

Absent == [t |-> "absent"]
JStr(s) == [t |-> "str", v |-> s]
JNum(cls, n) == [t |-> "num", cls |-> cls, v |-> n]
JArr(xs) == [t |-> "arr", v |-> xs]
JObj(fields) == [t |-> "obj", f |-> fields]

\* String
DeString(j) == IF j.t = "str" THEN Some(j.v) ELSE None

\* u64
DeU64(j) ==
    IF j.t = "num" /\ j.cls = "int" /\ j.v >= 0 THEN Some(j.v) ELSE None

\* DateTime<Utc> of a millisecond epoch: seconds and nanoseconds.
DateTimeFromMillis(ms) ==
    [secs |-> ms \div 1000, nsecs |-> (ms % 1000) * 1000000]

\* DateTime::timestamp_millis
timestamp_millis(dt) == dt.secs * 1000 + dt.nsecs \div 1000000

\* chrono::serde::ts_milliseconds: any i64 / u64 integer inside chrono's range.
DeTsMilliseconds(j) ==
    IF j.t = "num" /\ j.cls = "int" THEN Some(DateTimeFromMillis(j.v)) ELSE None

\* [String; 2]
DeLevel(j) ==
    IF /\ j.t = "arr"
       /\ Len(j.v) = 2
       /\ j.v[1].t = "str"
       /\ j.v[2].t = "str"
    THEN Some(<<j.v[1].v, j.v[2].v>>)
    ELSE None

\* Vec<[String; 2]>
DeLevels(j) ==
    IF j.t = "arr" /\ \A k \in 1..Len(j.v) : DeLevel(j.v[k]).some
    THEN Some([k \in 1..Len(j.v) |-> DeLevel(j.v[k]).v])
    ELSE None

\* What deserialising one key gives: "missing", "invalid" or "ok".
FieldStatus(j, parsed) ==
    IF j.t = "absent" THEN "missing"
    ELSE IF parsed.some THEN "ok"
    ELSE "invalid"

\* The name of the first entry of sts (pairs <<name, status>>) with status st,
\* "" when there is none.
FirstWith(sts, st) ==
    IF \E k \in 1..Len(sts) : sts[k][2] = st
    THEN sts[CHOOSE k \in 1..Len(sts) :
                /\ sts[k][2] = st
                /\ \A l \in 1..(k - 1) : sts[l][2] /= st][1]
    ELSE ""

\* derive(Deserialize) for BybitOrderBookL1Data: a malformed key fails where the
\* document holds it, a missing key once the object has been read.
DeData(j) ==
    IF j.t /= "obj" THEN Err("data")
    ELSE
        LET o == j.f
            sts == << <<"s", FieldStatus(o.s, DeString(o.s))>>,
                      <<"b", FieldStatus(o.b, DeLevels(o.b))>>,
                      <<"a", FieldStatus(o.a, DeLevels(o.a))>>,
                      <<"u", FieldStatus(o.u, DeU64(o.u))>>,
                      <<"seq", FieldStatus(o.seq, DeU64(o.seq))>> >>
        IN  IF FirstWith(sts, "invalid") /= "" THEN Err(FirstWith(sts, "invalid"))
            ELSE IF FirstWith(sts, "missing") /= "" THEN Err(FirstWith(sts, "missing"))
            ELSE Ok([s |-> DeString(o.s).v,
                     b |-> DeLevels(o.b).v,
                     a |-> DeLevels(o.a).v,
                     u |-> DeU64(o.u).v,
                     seq |-> DeU64(o.seq).v])

\* Deserialize with cts under #[serde(default)]: a missing cts becomes 0.
DeserializeCtsDefault(p) ==
    LET dataSt == IF p.data.t = "absent" THEN "missing"
                  ELSE IF DeData(p.data).ok THEN "ok" ELSE "invalid"
        ctsSt == IF p.cts.t = "absent" THEN "ok" ELSE FieldStatus(p.cts, DeU64(p.cts))
        sts == << <<"topic", FieldStatus(p.topic, DeString(p.topic))>>,
                  <<"ts", FieldStatus(p.ts, DeTsMilliseconds(p.ts))>>,
                  <<"type", FieldStatus(p.type, DeString(p.type))>>,
                  <<"data", dataSt>>,
                  <<"cts", ctsSt>> >>
        bad == FirstWith(sts, "invalid")
    IN  IF bad = "data" THEN DeData(p.data)
        ELSE IF bad /= "" THEN Err(bad)
        ELSE IF FirstWith(sts, "missing") /= "" THEN Err(FirstWith(sts, "missing"))
        ELSE Ok([topic |-> DeString(p.topic).v,
                 ts |-> DeTsMilliseconds(p.ts).v,
                 update_type |-> DeString(p.type).v,
                 data |-> DeData(p.data).v,
                 cts |-> IF p.cts.t = "absent" THEN 0 ELSE DeU64(p.cts).v])

\* serde_json::from_str::<BybitOrderBookL1>: derive(Deserialize) for the struct.
Deserialize(p) ==
    LET dataSt == IF p.data.t = "absent" THEN "missing"
                  ELSE IF DeData(p.data).ok THEN "ok" ELSE "invalid"
        sts == << <<"topic", FieldStatus(p.topic, DeString(p.topic))>>,
                  <<"ts", FieldStatus(p.ts, DeTsMilliseconds(p.ts))>>,
                  <<"type", FieldStatus(p.type, DeString(p.type))>>,
                  <<"data", dataSt>>,
                  <<"cts", FieldStatus(p.cts, DeU64(p.cts))>> >>
        bad == FirstWith(sts, "invalid")
    IN  IF bad = "data" THEN DeData(p.data)
        ELSE IF bad /= "" THEN Err(bad)
        ELSE IF FirstWith(sts, "missing") /= "" THEN Err(FirstWith(sts, "missing"))
        ELSE Ok([topic |-> DeString(p.topic).v,
                 ts |-> DeTsMilliseconds(p.ts).v,
                 update_type |-> DeString(p.type).v,
                 data |-> DeData(p.data).v,
                 cts |-> DeU64(p.cts).v])

\* ---------------------------------------------------------------- routing key

\* BybitChannel::ORDER_BOOK_L1
ORDER_BOOK_L1 == "orderbook.1"

\* ExchangeSub::from((channel, market)).id()
ExchangeSubId(channel, market) == channel \o "|" \o market

\* id() keyed by the message's topic instead of its symbol.
idFromTopic(bk) == Some(bk.topic)

\* Identifier<Option<SubscriptionId>>::id
id(bk) == Some(ExchangeSubId(ORDER_BOOK_L1, bk.data.s))

\* ------------------------------------------------------------------- mapper

\* Utc::now()
UtcNow == [secs |-> now, nsecs |-> 0]

\* Exchange::from(ExchangeId): the exchange's name as text.
ExchangeFrom(exchange_id) ==
    CASE exchange_id = "BybitSpot" -> "bybit_spot"
      [] exchange_id = "BybitPerpetualsUsd" -> "bybit_perpetuals_usd"

\* Level::new
Level_new(price, amount) == [price |-> price, amount |-> amount]

RECURSIVE FirstParsed(_, _)
\* The first level of levels from index k on whose price parses, if any.
FirstParsed(levels, k) ==
    IF k > Len(levels) THEN None
    ELSE IF ParseF64(levels[k][1]).some THEN ParseF64(levels[k][1])
    ELSE FirstParsed(levels, k + 1)

\* BidPrice falling back to a later level when level 0's price does not parse.
BidPriceFallback(bk) == UnwrapOr(FirstParsed(bk.data.b, 1), F64Zero)

\* book.data.b.get(0).and_then(|b| b[0].parse().ok()).unwrap_or(0.0)
BidPrice(bk) == UnwrapOr(FirstPrice(bk.data.b), F64Zero)

\* BidAmount parsed only once the price has parsed.
BidAmountCoupled(bk) ==
    UnwrapOr(IF FirstPrice(bk.data.b).some THEN FirstAmount(bk.data.b) ELSE None, F64Zero)

\* book.data.b.get(0).and_then(|b| b[1].parse().ok()).unwrap_or(0.0)
BidAmount(bk) == UnwrapOr(FirstAmount(bk.data.b), F64Zero)

\* AskPrice reading the bid side.
AskPriceFromBid(bk) == UnwrapOr(FirstPrice(bk.data.b), F64Zero)

\* book.data.a.get(0).and_then(|a| a[0].parse().ok()).unwrap_or(0.0)
AskPrice(bk) == UnwrapOr(FirstPrice(bk.data.a), F64Zero)

\* AskAmount reading the bid side.
AskAmountFromBid(bk) == UnwrapOr(FirstAmount(bk.data.b), F64Zero)

\* book.data.a.get(0).and_then(|a| a[1].parse().ok()).unwrap_or(0.0)
AskAmount(bk) == UnwrapOr(FirstAmount(bk.data.a), F64Zero)

\* The event of From with its parts given.
EventOf(exchange_id, instrument, bk, updated, bid, ask) ==
    Ok([exchange_time |-> bk.ts,
        received_time |-> UtcNow,
        exchange |-> ExchangeFrom(exchange_id),
        instrument |-> instrument,
        kind |-> [last_update_time |-> updated, best_bid |-> bid, best_ask |-> ask]])

\* From propagating a parse failure of a present level as an error.
FromPropagate(exchange_id, instrument, bk) ==
    IF \/ Len(bk.data.b) > 0 /\ ~(FirstPrice(bk.data.b).some /\ FirstAmount(bk.data.b).some)
       \/ Len(bk.data.a) > 0 /\ ~(FirstPrice(bk.data.a).some /\ FirstAmount(bk.data.a).some)
    THEN << Err("parse") >>
    ELSE << EventOf(exchange_id, instrument, bk, bk.ts,
                    Level_new(BidPrice(bk), BidAmount(bk)),
                    Level_new(AskPrice(bk), AskAmount(bk))) >>

\* From stamping the book with the time of mapping.
FromNowTime(exchange_id, instrument, bk) ==
    << EventOf(exchange_id, instrument, bk, UtcNow,
               Level_new(BidPrice(bk), BidAmount(bk)),
               Level_new(AskPrice(bk), AskAmount(bk))) >>

\* From dropping an update whose counter is behind one already mapped.
FromDropStale(exchange_id, instrument, bk) ==
    IF \E j \in DOMAIN stage : stage[j] = "mapped" /\ book[j].v.data.u > bk.data.u
    THEN << >>
    ELSE << EventOf(exchange_id, instrument, bk, bk.ts,
                    Level_new(BidPrice(bk), BidAmount(bk)),
                    Level_new(AskPrice(bk), AskAmount(bk))) >>

\* From keeping the last mapped best bid for an update without bids.
FromRetained(exchange_id, instrument, bk) ==
    LET kept == {j \in DOMAIN stage : stage[j] = "mapped" /\ Len(book[j].v.data.b) > 0}
    IN  << EventOf(exchange_id, instrument, bk, bk.ts,
                   IF Len(bk.data.b) = 0 /\ kept /= {}
                   THEN iter[CHOOSE j \in kept : TRUE][1].v.kind.best_bid
                   ELSE Level_new(BidPrice(bk), BidAmount(bk)),
                   Level_new(AskPrice(bk), AskAmount(bk))) >>

\* From<(ExchangeId, InstrumentId, BybitOrderBookL1)> for MarketIter
From(exchange_id, instrument, bk) ==
    << Ok([exchange_time |-> bk.ts,
           received_time |-> UtcNow,
           exchange |-> ExchangeFrom(exchange_id),
           instrument |-> instrument,
           kind |-> [last_update_time |-> bk.ts,
                     best_bid |-> Level_new(BidPrice(bk), BidAmount(bk)),
                     best_ask |-> Level_new(AskPrice(bk), AskAmount(bk))]]) >>

\* ------------------------------------------------------------------ actions

Messages == DOMAIN payloads

\* serde_json::from_str of message i's payload.
Decode(i) ==
    /\ stage[i] = "raw"
    /\ LET r == Deserialize(payloads[i])
       IN  IF r.ok
           THEN /\ book' = [book EXCEPT ![i] = Some(r.v)]
                /\ stage' = [stage EXCEPT ![i] = "decoded"]
                /\ err' = err
           ELSE /\ err' = [err EXCEPT ![i] = r.field]
                /\ stage' = [stage EXCEPT ![i] = "decode_error"]
                /\ book' = book
    /\ UNCHANGED <<payloads, args, key, iter, now>>

\* id() of the decoded message i.
Identify(i) ==
    /\ stage[i] = "decoded"
    /\ key' = [key EXCEPT ![i] = id(book[i].v)]
    /\ stage' = [stage EXCEPT ![i] = "keyed"]
    /\ UNCHANGED <<payloads, args, book, err, iter, now>>

\* (exchange_id, instrument, book).into() for message i.
Map(i) ==
    /\ stage[i] = "keyed"
    /\ iter' = [iter EXCEPT ![i] =
                    From(args[i].exchange_id, args[i].instrument, book[i].v)]
    /\ stage' = [stage EXCEPT ![i] = "mapped"]
    /\ UNCHANGED <<payloads, args, book, err, key, now>>

\* The wall clock advances.
Tick ==
    /\ now < MaxClock
    /\ now' = now + 1
    /\ UNCHANGED <<payloads, args, stage, book, err, key, iter>>

Next ==
    \/ \E i \in Messages : Decode(i)
    \/ \E i \in Messages : Identify(i)
    \/ \E i \in Messages : Map(i)
    \/ Tick

\* The state once the messages ps have arrived with the caller's as.
Arrived(ps, as) ==
    /\ payloads = ps
    /\ args = as
    /\ stage = [i \in DOMAIN ps |-> "raw"]
    /\ book = [i \in DOMAIN ps |-> None]
    /\ err = [i \in DOMAIN ps |-> ""]
    /\ key = [i \in DOMAIN ps |-> None]
    /\ iter = [i \in DOMAIN ps |-> <<>>]
    /\ now = 0

\* ------------------------------------------------------------------- inputs

\* The wire form of a well-formed update.
JLevels(levels) ==
    JArr([k \in 1..Len(levels) |-> JArr(<<JStr(levels[k][1]), JStr(levels[k][2])>>)])

WirePayload(topic, ts, type, s, b, a, u, seq, cts) ==
    [topic |-> JStr(topic),
     ts |-> JNum("int", ts),
     type |-> JStr(type),
     data |-> JObj([s |-> JStr(s),
                    b |-> JLevels(b),
                    a |-> JLevels(a),
                    u |-> JNum("int", u),
                    seq |-> JNum("int", seq)]),
     cts |-> JNum("int", cts)]

\* Levels: the two of the repository's test, and levels whose price or amount
\* text is not a number, is a better price than the test's, or is NaN.
LvBid == << <<"6", "4", "0", "5", "5", ".", "7", "5">>,
            <<"0", ".", "5", "0", "3", "6", "4", "1">> >>
LvAsk == << <<"6", "4", "0", "5", "5", ".", "7", "6">>,
            <<"0", ".", "1", "2", "3", "4", "5", "6">> >>
LvBadPrice == << <<"x">>, <<"1", "e", "1">> >>
LvBadAmount == << <<"9">>, <<>> >>
LvHigh == << <<"7", "e", "4">>, <<"N", "a", "N">> >>
LvBadBoth == << <<"+">>, <<" ", "1">> >>

SampleLevels == {LvBid, LvAsk, LvBadPrice, LvBadAmount, LvHigh, LvBadBoth}

\* The sequences over S of length at most n.
SeqsUpTo(S, n) == UNION {[1..m -> S] : m \in 0..n}

\* The (bids, asks) of the mapper specification: one side of up to MaxLevels
\* levels, the other of at most one.
MapBooks ==
    {<<b, a>> : b \in SeqsUpTo(SampleLevels, MaxLevels), a \in SeqsUpTo(SampleLevels, 1)}
    \cup
    {<<b, a>> : b \in SeqsUpTo(SampleLevels, 1), a \in SeqsUpTo(SampleLevels, MaxLevels)}

TsValues == {1724458, 0 - 250}

SpotArgs == [exchange_id |-> "BybitSpot", instrument |-> "BTCUSDT"]
PerpArgs == [exchange_id |-> "BybitPerpetualsUsd", instrument |-> "btc_usdt_perp"]

\* One well-formed update, any book.
Init ==
    \E bk \in MapBooks, ts \in TsValues, ar \in {SpotArgs, PerpArgs} :
        Arrived(<<WirePayload("orderbook.1.BTCUSDT", ts, "delta", "BTCUSDT",
                              bk[1], bk[2], 37, 38, 1724450)>>,
                <<ar>>)

Spec == Init /\ [][Next]_vars

\* Payloads with keys missing or malformed.
DecodeData ==
    [s : {JStr("BTCUSDT"), Absent, JNum("int", 1)},
     b : {JLevels(<<>>), JLevels(<<LvBid>>), Absent, JNum("int", 1),
          JArr(<<JArr(<<JStr(<<"9">>)>>)>>),
          JArr(<<JArr(<<JNum("float", 9), JStr(<<"1">>)>>)>>)},
     a : {JLevels(<<LvAsk, LvHigh>>), JLevels(<<>>), Absent,
          JArr(<<JArr(<<JStr(<<"9">>), JStr(<<"1">>), JStr(<<"1">>)>>)>>)},
     u : {JNum("int", 37), Absent, JNum("int", 0 - 1)},
     seq : {JNum("int", 38), Absent, JNum("big", 0)}]

DecodePayloads ==
    [topic : {JStr("orderbook.1.BTCUSDT"), Absent, JNum("int", 1)},
     ts : {JNum("int", 1724458), Absent, JNum("float", 1), JNum("big", 0)},
     type : {JStr("snapshot"), Absent},
     data : {JObj(d) : d \in DecodeData} \cup {Absent, JNum("int", 1)},
     cts : {JNum("int", 1724450), Absent, JNum("int", 0 - 1)}]

InitDecode == \E p \in DecodePayloads : Arrived(<<p>>, <<SpotArgs>>)

SpecDecode == InitDecode /\ [][Next]_vars

\* Two updates in flight.  The inputs are the test's update and updates that
\* differ from it in the counters and the fields the event does not carry, in
\* the two sides of the book, in the symbol and topic, or in the caller's
\* identifiers.
In(payload, ar) == [payload |-> payload, args |-> ar]

CounterInputs ==
    {In(WirePayload(m[1], ts, m[2], "BTCUSDT", b, <<LvAsk>>, u, 2 * u, m[3]), SpotArgs) :
        m \in {<<"orderbook.1.BTCUSDT", "delta", 1724450>>,
               <<"orderbook.1.ETHUSDT", "snapshot", 1724458>>},
        ts \in {1724458},
        b \in {<<LvBid>>, <<>>},
        u \in 0..MaxCounter}

SideInputs ==
    {In(WirePayload("orderbook.1.BTCUSDT", 1724458, "delta", "BTCUSDT", b, a, 0, 0, 1724450),
        SpotArgs) :
        b \in {<<>>, <<LvBid>>, <<LvBadBoth, LvHigh>>},
        a \in {<<>>, <<LvAsk>>, <<LvBadPrice, LvBadAmount>>}}

SymbolInputs ==
    {In(WirePayload(topic, ts, "delta", s, <<LvBid>>, <<LvAsk>>, 0, 0, 1724450), SpotArgs) :
        topic \in {"orderbook.1.BTCUSDT", "orderbook.1.ETHUSDT"},
        s \in {"BTCUSDT", "ETHUSDT", "BTCUSDT|1"},
        ts \in {0 - 250}}

CallerInputs ==
    {In(WirePayload("orderbook.1.BTCUSDT", 1724458, "delta", "BTCUSDT",
                    <<LvBid>>, <<LvAsk>>, 0, 0, 1724450), PerpArgs)}

PairInputs == CounterInputs \cup SideInputs \cup SymbolInputs \cup CallerInputs

InitPair ==
    \E p \in PairInputs, q \in PairInputs :
        Arrived(<<p.payload, q.payload>>, <<p.args, q.args>>)

SpecPair == InitPair /\ [][Next]_vars

\* NumMessages updates in flight: the test's update, a degraded one (no bids,
\* a non-numeric ask price), one of another symbol and time whose later levels
\* hold better prices, and one that does not decode (no cts).
GoodInput ==
    In(WirePayload("orderbook.1.BTCUSDT", 1724458, "delta", "BTCUSDT",
                   <<LvBid>>, <<LvAsk>>, 1, 1, 1724450), SpotArgs)

DegradedInput ==
    In(WirePayload("orderbook.1.BTCUSDT", 1724458, "delta", "BTCUSDT",
                   <<>>, <<LvBadPrice>>, 0, 0, 1724450), SpotArgs)

OtherInput ==
    In(WirePayload("orderbook.1.ETHUSDT", 0 - 250, "snapshot", "ETHUSDT",
                   <<LvAsk, LvHigh>>, <<LvHigh, LvBadAmount>>, 0, 1, 0), PerpArgs)

UndecodableInput ==
    In([GoodInput.payload EXCEPT !.cts = Absent], SpotArgs)

ConcInputs == {GoodInput, DegradedInput, OtherInput, UndecodableInput}

InitConc ==
    \E ins \in [1..NumMessages -> ConcInputs] :
        Arrived([i \in 1..NumMessages |-> ins[i].payload],
                [i \in 1..NumMessages |-> ins[i].args])

SpecConc == InitConc /\ [][Next]_vars

\* ------------------------------------------------------------------- claims

Mapped(i) == stage[i] = "mapped"

Keyed(i) == stage[i] \in {"keyed", "mapped"}

\* The event message i's conversion emitted.
Event(i) == iter[i][1].v

\* The decoded bid and ask levels of message i.
Bids(i) == book[i].v.data.b
Asks(i) == book[i].v.data.a

ZeroLevel == [price |-> F64Zero, amount |-> F64Zero]

\* A MarketIter without the received_time of its events.
Canonical(it) ==
    [k \in 1..Len(it) |->
        IF it[k].ok
        THEN [exchange_time |-> it[k].v.exchange_time,
              exchange |-> it[k].v.exchange,
              instrument |-> it[k].v.instrument,
              kind |-> it[k].v.kind]
        ELSE it[k]]

\* C1: the conversion of any decoded update yields exactly one element, an Ok
\* carrying the caller's instrument unchanged.
C1_ExactlyOneOk ==
    \A i \in Messages :
        Mapped(i) =>
            /\ Len(iter[i]) = 1
            /\ iter[i][1].ok
            /\ iter[i][1].v.instrument = args[i].instrument

\* An update with no bids and a non-numeric ask price has been mapped for the
\* perpetuals caller.
C1_Witness ==
    \E i \in Messages :
        /\ Mapped(i)
        /\ Bids(i) = <<>>
        /\ Asks(i) = <<LvBadPrice>>
        /\ args[i] = PerpArgs
        /\ Len(iter[i]) = 1
        /\ iter[i][1].ok

\* C2: an empty bid (ask) sequence gives best_bid (best_ask) exactly
\* {0.0, 0.0}, and the event is still emitted.
C2_EmptySideIsZero ==
    \A i \in Messages :
        Mapped(i) =>
            /\ Bids(i) = <<>> =>
                 Len(iter[i]) = 1 /\ iter[i][1].ok /\ Event(i).kind.best_bid = ZeroLevel
            /\ Asks(i) = <<>> =>
                 Len(iter[i]) = 1 /\ iter[i][1].ok /\ Event(i).kind.best_ask = ZeroLevel

\* An update with bids and no asks has been mapped: the ask is zero, the bid is not.
C2_Witness ==
    \E i \in Messages :
        /\ Mapped(i)
        /\ Asks(i) = <<>>
        /\ Bids(i) = <<LvBid>>
        /\ Event(i).kind.best_ask = ZeroLevel
        /\ Event(i).kind.best_bid.amount = F64(FALSE, 503641, 0 - 6)

\* What a text gives its field: its parsed value, 0.0 when it does not parse.
FieldOf(text) == IF ParseF64(text).some THEN ParseF64(text).v ELSE F64Zero

\* The first level's price and amount degrade independently in level.
Independent(levels, level) ==
    Len(levels) > 0 =>
        /\ ~ParseF64(levels[1][1]).some =>
              level.price = F64Zero /\ level.amount = FieldOf(levels[1][2])
        /\ ~ParseF64(levels[1][2]).some =>
              level.amount = F64Zero /\ level.price = FieldOf(levels[1][1])

\* C3: a price text of level 0 that does not parse gives price 0.0 and leaves
\* the amount the parsed value of its text, and symmetrically; on both sides.
C3_FieldsDegradeIndependently ==
    \A i \in Messages :
        Mapped(i) =>
            /\ Independent(Bids(i), Event(i).kind.best_bid)
            /\ Independent(Asks(i), Event(i).kind.best_ask)

\* A bid whose price is "x" and amount "1e1" has been mapped to {0.0, 10.0},
\* beside an ask whose price is "9" and whose amount is empty, mapped to {9.0, 0.0}.
C3_Witness ==
    \E i \in Messages :
        /\ Mapped(i)
        /\ Bids(i) = <<LvBadPrice>>
        /\ Asks(i) = <<LvBadAmount>>
        /\ Event(i).kind.best_bid = [price |-> F64Zero, amount |-> F64(FALSE, 1, 1)]
        /\ Event(i).kind.best_ask = [price |-> F64(FALSE, 9, 0), amount |-> F64Zero]

\* levels gives nothing: it is empty, or neither text of its first level parses.
GivesNothing(levels) ==
    \/ Len(levels) = 0
    \/ Len(levels) > 0 /\ ~ParseF64(levels[1][1]).some /\ ~ParseF64(levels[1][2]).some

\* Both texts of the first level of levels parse.
GivesLevel(levels) ==
    Len(levels) > 0 /\ ParseF64(levels[1][1]).some /\ ParseF64(levels[1][2]).some

ParsedLevel(levels) ==
    [price |-> ParseF64(levels[1][1]).v, amount |-> ParseF64(levels[1][2]).v]

\* C4: best_ask is determined by data.a alone and best_bid by data.b alone;
\* a side that gives nothing is {0.0, 0.0} while the other side, when its first
\* level is numeric, is exactly that level's parsed price and amount.
C4_SidesIndependent ==
    /\ \A i \in Messages :
          Mapped(i) =>
              /\ GivesNothing(Bids(i)) /\ GivesLevel(Asks(i)) =>
                    /\ Event(i).kind.best_bid = ZeroLevel
                    /\ Event(i).kind.best_ask = ParsedLevel(Asks(i))
              /\ GivesNothing(Asks(i)) /\ GivesLevel(Bids(i)) =>
                    /\ Event(i).kind.best_ask = ZeroLevel
                    /\ Event(i).kind.best_bid = ParsedLevel(Bids(i))
    /\ \A i, j \in Messages :
          Mapped(i) /\ Mapped(j) =>
              /\ Asks(i) = Asks(j) => Event(i).kind.best_ask = Event(j).kind.best_ask
              /\ Bids(i) = Bids(j) => Event(i).kind.best_bid = Event(j).kind.best_bid

\* Two mapped updates with the same asks: one has no bids, the other a
\* non-numeric first bid; both carry the test's ask and a zero bid.
C4_Witness ==
    \E i, j \in Messages :
        /\ Mapped(i) /\ Mapped(j)
        /\ Bids(i) = <<>>
        /\ Bids(j) = <<LvBadBoth, LvHigh>>
        /\ Asks(i) = <<LvAsk>> /\ Asks(j) = <<LvAsk>>
        /\ Event(i).kind.best_bid = ZeroLevel
        /\ Event(j).kind.best_bid = ZeroLevel
        /\ Event(i).kind.best_ask =
               [price |-> F64(FALSE, 6405576, 0 - 2), amount |-> F64(FALSE, 123456, 0 - 6)]
        /\ Event(j).kind.best_ask = Event(i).kind.best_ask

\* C5: id() is Some of "orderbook.1", "|" and data.s in that order; updates
\* with equal symbols have equal keys whatever their topic, updates with
\* distinct symbols distinct keys.
C5_RoutingKey ==
    /\ \A i \in Messages :
          Keyed(i) =>
              /\ key[i].some
              /\ key[i].v = "orderbook.1" \o "|" \o book[i].v.data.s
    /\ \A i, j \in Messages :
          Keyed(i) /\ Keyed(j) =>
              (book[i].v.data.s = book[j].v.data.s <=> key[i] = key[j])

\* Two updates of symbol BTCUSDT with different topics both got the test's key,
\* "orderbook.1|BTCUSDT".
C5_Witness ==
    \E i, j \in Messages :
        /\ Keyed(i) /\ Keyed(j)
        /\ book[i].v.topic /= book[j].v.topic
        /\ book[i].v.data.s = "BTCUSDT"
        /\ key[i] = Some("orderbook.1|BTCUSDT")
        /\ key[j] = key[i]

\* C6: exchange_time and last_update_time both are the payload's ts.
C6_TimesAreTs ==
    \A i \in Messages :
        Mapped(i) =>
            /\ Event(i).exchange_time = book[i].v.ts
            /\ Event(i).kind.last_update_time = book[i].v.ts
            /\ Event(i).kind.last_update_time = Event(i).exchange_time
            /\ timestamp_millis(Event(i).exchange_time) = payloads[i].ts.v

\* An update whose ts differs from its cts and from the clock has been mapped.
C6_Witness ==
    \E i \in Messages :
        /\ Mapped(i)
        /\ payloads[i].ts.v = 1724458
        /\ book[i].v.cts = 1724450
        /\ Event(i).received_time = [secs |-> 1, nsecs |-> 0]
        /\ Event(i).exchange_time = [secs |-> 1724, nsecs |-> 458000000]
        /\ Event(i).kind.last_update_time = [secs |-> 1724, nsecs |-> 458000000]

\* The keys of payload p that are missing or malformed.
BadFields(p) ==
    {n \in {"topic"} : FieldStatus(p.topic, DeString(p.topic)) /= "ok"}
    \cup {n \in {"ts"} : FieldStatus(p.ts, DeTsMilliseconds(p.ts)) /= "ok"}
    \cup {n \in {"type"} : FieldStatus(p.type, DeString(p.type)) /= "ok"}
    \cup {n \in {"cts"} : FieldStatus(p.cts, DeU64(p.cts)) /= "ok"}
    \cup (IF p.data.t /= "obj" THEN {"data"}
          ELSE {n \in {"s"} : FieldStatus(p.data.f.s, DeString(p.data.f.s)) /= "ok"}
               \cup {n \in {"b"} : FieldStatus(p.data.f.b, DeLevels(p.data.f.b)) /= "ok"}
               \cup {n \in {"a"} : FieldStatus(p.data.f.a, DeLevels(p.data.f.a)) /= "ok"}
               \cup {n \in {"u"} : FieldStatus(p.data.f.u, DeU64(p.data.f.u)) /= "ok"}
               \cup {n \in {"seq"} : FieldStatus(p.data.f.seq, DeU64(p.data.f.seq)) /= "ok"})

\* C7 as stated: decoding succeeds whenever topic, ts, type, data.s, data.b,
\* data.a, data.u and data.seq are present and well-formed, and fails only
\* when one of these eight is missing or malformed.
C7_EightFieldsDecide ==
    \A i \in Messages :
        stage[i] /= "raw" =>
            (stage[i] = "decode_error" <=> BadFields(payloads[i]) \ {"cts"} /= {})

\* C7, amended: decoding succeeds exactly when the eight fields and cts are all
\* present and well-formed, for level arrays of any length; a failure names a
\* field that is missing or malformed.
C7_NineFieldsDecide ==
    \A i \in Messages :
        stage[i] /= "raw" =>
            /\ stage[i] = "decode_error" <=> BadFields(payloads[i]) /= {}
            /\ stage[i] = "decode_error" => err[i] \in BadFields(payloads[i])
            /\ stage[i] /= "decode_error" =>
                  /\ book[i].some
                  /\ Len(Bids(i)) = Len(payloads[i].data.f.b.v)
                  /\ Len(Asks(i)) = Len(payloads[i].data.f.a.v)

\* A payload with empty bid and ask arrays has been decoded.
C7_Witness ==
    \E i \in Messages :
        /\ stage[i] = "decoded"
        /\ payloads[i].data.f.b.v = <<>>
        /\ payloads[i].data.f.a.v = <<>>
        /\ book[i].some
        /\ Bids(i) = <<>> /\ Asks(i) = <<>>

\* C8: under every interleaving, the event of a message (received_time aside)
\* is the one mapping that message alone gives, whatever the other messages
\* and their progress; equal messages give equal events; a message that did
\* not decode emits nothing and leaves the others' events alone.
C8_IndependentOfOthers ==
    /\ \A i \in Messages :
          /\ Mapped(i) =>
                Canonical(iter[i]) =
                    Canonical(From(args[i].exchange_id, args[i].instrument,
                                   Deserialize(payloads[i]).v))
          /\ stage[i] = "decode_error" => iter[i] = <<>>
    /\ \A i, j \in Messages :
          Mapped(i) /\ Mapped(j) /\ payloads[i] = payloads[j] /\ args[i] = args[j] =>
              Canonical(iter[i]) = Canonical(iter[j])

\* The degraded update was mapped first and the test's update after it, at a
\* later time; the degraded update's bid is still zero.
C8_Witness ==
    \E i, j \in Messages :
        /\ Mapped(i) /\ Mapped(j)
        /\ payloads[i] = DegradedInput.payload
        /\ payloads[j] = GoodInput.payload
        /\ Event(i).received_time.secs < Event(j).received_time.secs
        /\ Event(i).kind.best_bid = ZeroLevel
        /\ Event(j).kind.best_bid.price = F64(FALSE, 6405575, 0 - 2)

\* C9: two decoded updates that agree on ts, data.b and data.a, mapped for the
\* same caller identifiers, give events equal in every field but
\* received_time, whatever their u, seq, cts, topic and update_type; no
\* counter value suppresses the event.
C9_CountersDropped ==
    /\ \A i, j \in Messages :
          /\ Mapped(i) /\ Mapped(j)
          /\ book[i].v.ts = book[j].v.ts
          /\ Bids(i) = Bids(j)
          /\ Asks(i) = Asks(j)
          /\ args[i] = args[j]
          => Canonical(iter[i]) = Canonical(iter[j])
    /\ \A i \in Messages : Mapped(i) => Len(iter[i]) = 1 /\ iter[i][1].ok

\* The first update has higher counters than the second, and another topic,
\* update_type and cts; both have been mapped, at different times, to the same
\* event.
C9_Witness ==
    \E i, j \in Messages :
        /\ i < j
        /\ Mapped(i) /\ Mapped(j)
        /\ book[i].v.data.u > book[j].v.data.u
        /\ book[i].v.data.seq > book[j].v.data.seq
        /\ book[i].v.cts /= book[j].v.cts
        /\ book[i].v.topic /= book[j].v.topic
        /\ book[i].v.update_type /= book[j].v.update_type
        /\ Event(i).received_time /= Event(j).received_time
        /\ Canonical(iter[i]) = Canonical(iter[j])

\* C10: a side with levels is mapped from its level 0 alone: each field is the
\* parsed text of level 0, or 0.0 when that text does not parse, whatever the
\* later levels hold.
C10_FirstLevelOnly ==
    \A i \in Messages :
        Mapped(i) =>
            /\ Len(Bids(i)) > 0 =>
                  Event(i).kind.best_bid =
                      [price |-> FieldOf(Bids(i)[1][1]), amount |-> FieldOf(Bids(i)[1][2])]
            /\ Len(Asks(i)) > 0 =>
                  Event(i).kind.best_ask =
                      [price |-> FieldOf(Asks(i)[1][1]), amount |-> FieldOf(Asks(i)[1][2])]

\* Bids whose level 0 has a non-numeric price and whose level 1 holds 7e4, a
\* better bid than any other: the price is 0.0 and the amount level 0's.
C10_Witness ==
    \E i \in Messages :
        /\ Mapped(i)
        /\ Bids(i) = <<LvBadPrice, LvHigh>>
        /\ ParseF64(Bids(i)[2][1]) = Some(F64(FALSE, 7, 4))
        /\ Event(i).kind.best_bid = [price |-> F64Zero, amount |-> F64(FALSE, 1, 1)]

====
